---- MODULE Spec2Model ----
(***************************************************************************)
(* Model of quickdo (src/main.py): the Task line codec, the QuickDo task   *)
(* store with its whole-file persistence, the report aggregation, the      *)
(* reminder thread and the delay parser.                                   *)
(*                                                                         *)
(* Text is a sequence of one-character strings.  An optional value         *)
(* (Python's None or a value) is the empty tuple or a one-element tuple.   *)
(* Time is counted in seconds; a created_at text holds a minute count.     *)
(***************************************************************************)
EXTENDS Integers, Sequences, FiniteSets, TLC

VARIABLES
    \* the running program and its files
    file,        \* ~/.quickdo/tasks.txt: sequence of lines
    tasks,       \* QuickDo.tasks of the running process
    pc,          \* position of the process: exited, ready, remind_started,
                 \* remind_logged, done, crashed
    out,         \* what the command of this process printed
    wrote,       \* save_tasks was called by this process
    diag,        \* number of "Ошибка при чтении задачи" diagnostics of the load
    reminders,   \* ~/.quickdo/reminders.txt: sequence of lines
    thread,      \* the reminder thread of this process, if any
    now,         \* wall clock, seconds
    ticks,       \* number of clock advances so far
    \* the codec applied to one record
    rec, line, dec, cstage,
    \* parse_delay applied to one text
    delay, seconds, dstage

storeVars == <<file, tasks, pc, out, wrote, diag, reminders, thread, now, ticks>>
codecVars == <<rec, line, dec, cstage>>
delayVars == <<delay, seconds, dstage>>
vars == <<file, tasks, pc, out, wrote, diag, reminders, thread, now, ticks,
          rec, line, dec, cstage, delay, seconds, dstage>>

----------------------------------------------------------------------------
(* Bounds *)

MaxTitlePieces == 2
MaxDelayDigits == 2
MaxInitLines == 2
MaxTasks == 2
MaxTicks == 2
MaxReminders == 1

----------------------------------------------------------------------------
(* Optional values *)

None == <<>>
Some(v) == <<v>>
IsSome(o) == Len(o) = 1
Val(o) == o[1]

----------------------------------------------------------------------------
(* Text helpers: str.strip, str.split, str.join, str.lower *)

IsSpace(c) == c \in {" ", "\t"}

RECURSIVE LStrip(_)
LStrip(s) == IF s # <<>> /\ IsSpace(Head(s)) THEN LStrip(Tail(s)) ELSE s

RECURSIVE RStrip(_)
RStrip(s) ==
    IF s # <<>> /\ IsSpace(s[Len(s)]) THEN RStrip(SubSeq(s, 1, Len(s) - 1)) ELSE s

Strip(s) == RStrip(LStrip(s))

\* s.split(sep): the fields between the separators, always at least one
RECURSIVE SplitFrom(_, _, _)
SplitFrom(s, sep, cur) ==
    IF s = <<>> THEN <<cur>>
    ELSE IF Head(s) = sep THEN <<cur>> \o SplitFrom(Tail(s), sep, <<>>)
    ELSE SplitFrom(Tail(s), sep, Append(cur, Head(s)))

Split(s, sep) == SplitFrom(s, sep, <<>>)

\* sep.join(parts)
RECURSIVE Join(_, _)
Join(parts, sep) ==
    IF parts = <<>> THEN <<>>
    ELSE IF Len(parts) = 1 THEN parts[1]
    ELSE parts[1] \o <<sep>> \o Join(Tail(parts), sep)

Lower(c) ==
    CASE c = "M" -> "m"
      [] c = "H" -> "h"
      [] c = "D" -> "d"
      [] OTHER -> c

----------------------------------------------------------------------------
(* Decimal numerals *)

Digits == <<"0", "1", "2", "3", "4", "5", "6", "7", "8", "9">>

IsDigit(c) == \E i \in 1..10 : Digits[i] = c
DigitVal(c) == (CHOOSE i \in 1..10 : Digits[i] = c) - 1
AllDigits(s) == \A i \in 1..Len(s) : IsDigit(s[i])

RECURSIVE Pow10(_)
Pow10(k) == IF k = 0 THEN 1 ELSE 10 * Pow10(k - 1)

RECURSIVE DecValue(_)
DecValue(s) ==
    IF s = <<>> THEN 0 ELSE 10 * DecValue(SubSeq(s, 1, Len(s) - 1)) + DigitVal(s[Len(s)])

----------------------------------------------------------------------------
(* created_at: strftime / strptime with "%Y-%m-%d %H:%M", minute precision. *)
(* The text is the zero-padded count of whole minutes.                     *)

TsWidth == 5

\* datetime.strftime: drops the seconds, prints fixed-width fields
StrFTime(t) ==
    [i \in 1..TsWidth |-> Digits[(((t \div 60) \div Pow10(TsWidth - i)) % 10) + 1]]

\* datetime.strptime: None stands for the ValueError it raises
StrPTime(s) ==
    IF Len(s) = TsWidth /\ AllDigits(s) THEN Some(DecValue(s) * 60) ELSE None

----------------------------------------------------------------------------
(* class Task *)

Low == <<"l", "o", "w">>
Medium == <<"m", "e", "d">>
High == <<"h", "i", "g", "h">>
Personal == <<"p", "e", "r", "s">>
Work == <<"w", "o", "r", "k">>

DueTag == <<"d", "u", "e", ":">>

\* Task.__init__ followed by the field assignments of its callers
Task(title, due_date, priority, category, completed, created_at) ==
    [title |-> title, due_date |-> due_date, priority |-> priority,
     category |-> category, completed |-> completed, created_at |-> created_at]

\* if self.due_date: None and the empty text are both falsy
Truthy(due_date) == IsSome(due_date) /\ Val(due_date) # <<>>

to_string(t) ==
    LET completed_mark == IF t.completed THEN "+" ELSE "-"
        due_str == IF Truthy(t.due_date) THEN <<" ">> \o DueTag \o Val(t.due_date) ELSE <<>>
    IN  <<completed_mark>> \o <<"|">> \o t.created_at \o <<"|">> \o t.priority
          \o <<"|">> \o t.category \o <<"|">> \o t.title \o due_str

\* re.search(r'due:(\S+)', s): start of the leftmost match, 0 if there is none
IsDueAt(s, i) ==
    /\ i + 4 <= Len(s)
    /\ SubSeq(s, i, i + 3) = DueTag
    /\ ~IsSpace(s[i + 4])

DueMatchStart(s) ==
    IF \E i \in 1..Len(s) : IsDueAt(s, i)
    THEN CHOOSE i \in 1..Len(s) : IsDueAt(s, i) /\ \A j \in 1..(i - 1) : ~IsDueAt(s, j)
    ELSE 0

\* group(1): the longest run of non-space characters starting at position k
RECURSIVE NonSpaceRun(_, _)
NonSpaceRun(s, k) ==
    IF k <= Len(s) /\ ~IsSpace(s[k]) THEN <<s[k]>> \o NonSpaceRun(s, k + 1) ELSE <<>>

from_string(l) ==
    LET parts == Split(Strip(l), "|")
    IN  IF Len(parts) < 4 THEN None    \* unpacking raises ValueError, caught
        ELSE
          LET completed_mark == parts[1]
              created_at == parts[2]
              priority == parts[3]
              category == parts[4]
              title_full == Join(SubSeq(parts, 5, Len(parts)), "|")
              m == DueMatchStart(title_full)
              title == IF m > 0 THEN Strip(SubSeq(title_full, 1, m - 1)) ELSE Strip(title_full)
              due_date == IF m > 0 THEN Some(NonSpaceRun(title_full, m + 4)) ELSE None
          IN  Some(Task(title, due_date, priority, category,
                        completed_mark = <<"+">>, created_at))

----------------------------------------------------------------------------
(* The codec applied to one record: to_string, then from_string *)

TitlePieces == {<<"a">>, <<"|">>, <<" ">>, DueTag}

RECURSIVE PieceTexts(_)
PieceTexts(n) ==
    IF n = 0 THEN {<<>>}
    ELSE LET shorter == PieceTexts(n - 1)
         IN  shorter \cup {s \o p : s \in shorter, p \in TitlePieces}

Titles == PieceTexts(MaxTitlePieces)
DueDates == {None, Some(<<"x">>), Some(<<"x", " ", "y">>)}
Priorities == {Low, Medium, High}
Categories == {Personal, Work}
Epoch == 10 * 86400
CreatedAts == {StrFTime(Epoch), StrFTime(Epoch - 86400)}

Records ==
    {Task(t, d, p, c, b, ts) :
        t \in Titles, d \in DueDates, p \in Priorities, c \in Categories,
        b \in BOOLEAN, ts \in CreatedAts}

Encode ==
    /\ cstage = "record"
    /\ line' = to_string(rec)
    /\ cstage' = "encoded"
    /\ UNCHANGED <<rec, dec>>

Decode ==
    /\ cstage = "encoded"
    /\ dec' = from_string(line)
    /\ cstage' = "decoded"
    /\ UNCHANGED <<rec, line>>

----------------------------------------------------------------------------
(* QuickDo.remind.parse_delay applied to one text *)

\* int(text): optional surrounding blanks, optional sign, then digits;
\* None stands for the ValueError it raises
PyInt(s) ==
    LET t == Strip(s)
        signed == t # <<>> /\ Head(t) \in {"+", "-"}
        body == IF signed THEN Tail(t) ELSE t
    IN  IF body = <<>> \/ ~AllDigits(body) THEN None
        ELSE IF signed /\ Head(t) = "-" THEN Some(0 - DecValue(body))
        ELSE Some(DecValue(body))

Units(unit) ==
    CASE unit = "m" -> 60
      [] unit = "h" -> 3600
      [] unit = "d" -> 86400
      [] OTHER -> 60

\* delay_str is the --in argument, None when the option is absent;
\* the result None stands for the TypeError, IndexError or ValueError raised
parse_delay(delay_str) ==
    IF ~IsSome(delay_str) THEN None                 \* None[-1]: TypeError
    ELSE LET s == Val(delay_str)
         IN  IF s = <<>> THEN None                  \* ""[-1]: IndexError
             ELSE LET unit == Lower(s[Len(s)])
                      value == PyInt(SubSeq(s, 1, Len(s) - 1))
                  IN  IF ~IsSome(value) THEN None   \* int(): ValueError
                      ELSE Some(Val(value) * Units(unit))

RECURSIVE Numerals(_)
Numerals(n) ==
    IF n = 0 THEN {<<>>}
    ELSE LET shorter == Numerals(n - 1)
         IN  shorter \cup {s \o <<Digits[i]>> : s \in shorter, i \in 1..10}

Suffixes == {<<>>, <<"m">>, <<"h">>, <<"d">>, <<"H">>, <<"x">>}
DelayTexts == {Some(n \o u) : n \in Numerals(MaxDelayDigits), u \in Suffixes} \cup {None}

ParseDelay ==
    /\ dstage = "text"
    /\ seconds' = parse_delay(delay)
    /\ dstage' = "parsed"
    /\ UNCHANGED delay

----------------------------------------------------------------------------
(* class QuickDo: the task store *)

\* load_tasks giving up at the first undecodable line
RECURSIVE load_tasks_abort(_)
load_tasks_abort(lines) ==
    IF lines = <<>> THEN <<>>
    ELSE IF Strip(Head(lines)) = <<>> THEN load_tasks_abort(Tail(lines))
    ELSE LET task == from_string(Head(lines))
         IN  IF IsSome(task) THEN <<Val(task)>> \o load_tasks_abort(Tail(lines))
             ELSE <<>>

\* load_tasks: blank lines are skipped, undecodable lines are dropped
RECURSIVE load_tasks(_)
load_tasks(lines) ==
    IF lines = <<>> THEN <<>>
    ELSE IF Strip(Head(lines)) = <<>> THEN load_tasks(Tail(lines))
    ELSE LET task == from_string(Head(lines))
         IN  IF IsSome(task) THEN <<Val(task)>> \o load_tasks(Tail(lines))
             ELSE load_tasks(Tail(lines))

\* the diagnostics from_string prints during the load
RECURSIVE load_diagnostics(_)
load_diagnostics(lines) ==
    IF lines = <<>> THEN 0
    ELSE (IF Strip(Head(lines)) # <<>> /\ ~IsSome(from_string(Head(lines))) THEN 1 ELSE 0)
         + load_diagnostics(Tail(lines))

\* save_tasks: the file is rewritten from the in-memory sequence
save_tasks(ts) == [i \in 1..Len(ts) |-> to_string(ts[i])]

NoOutput == [op |-> "none"]

\* main(): QuickDo() is constructed, which loads the tasks file
Start ==
    /\ pc \in {"exited", "crashed"}
    /\ tasks' = load_tasks(file)
    /\ diag' = load_diagnostics(file)
    /\ pc' = "ready"
    /\ out' = NoOutput
    /\ wrote' = FALSE
    /\ thread' = None
    /\ UNCHANGED <<file, reminders, now, ticks>>

add_task(title, due_date, priority, category) ==
    /\ pc = "ready"
    /\ Len(tasks) < MaxTasks
    /\ LET task == Task(title, due_date, priority, category, FALSE, StrFTime(now))
       IN  /\ tasks' = Append(tasks, task)
           /\ file' = save_tasks(Append(tasks, task))
    /\ wrote' = TRUE
    /\ out' = [op |-> "add", msg |-> "added", title |-> title,
               due_date |-> due_date, priority |-> priority]
    /\ pc' = "done"
    /\ UNCHANGED <<diag, reminders, thread, now, ticks>>

\* list_tasks numbering the rows it shows instead of the stored positions
RECURSIVE ListRowsFrom(_, _, _, _)
ListRowsFrom(ts, i, n, show_completed) ==
    IF i > Len(ts) THEN <<>>
    ELSE IF ts[i].completed /\ ~show_completed THEN ListRowsFrom(ts, i + 1, n, show_completed)
    ELSE <<[i |-> n,
            status |-> IF ts[i].completed THEN "done" ELSE "-",
            title |-> ts[i].title,
            category |-> ts[i].category,
            due_date |-> ts[i].due_date]>> \o ListRowsFrom(ts, i + 1, n + 1, show_completed)

ListRows_renumbered(ts, i, show_completed) == ListRowsFrom(ts, i, 1, show_completed)

\* the lines list_tasks prints after the header, for ts[i..]
RECURSIVE ListRows(_, _, _)
ListRows(ts, i, show_completed) ==
    IF i > Len(ts) THEN <<>>
    ELSE IF ts[i].completed /\ ~show_completed THEN ListRows(ts, i + 1, show_completed)
    ELSE <<[i |-> i,
            status |-> IF ts[i].completed THEN "done" ELSE "-",
            title |-> ts[i].title,
            category |-> ts[i].category,
            due_date |-> ts[i].due_date]>> \o ListRows(ts, i + 1, show_completed)

list_tasks(show_completed) ==
    /\ pc = "ready"
    /\ out' = IF tasks = <<>>
              THEN [op |-> "list", msg |-> "no active tasks",
                    show_completed |-> show_completed, rows |-> <<>>]
              ELSE [op |-> "list", msg |-> "current tasks",
                    show_completed |-> show_completed,
                    rows |-> ListRows(tasks, 1, show_completed)]
    /\ pc' = "done"
    /\ UNCHANGED <<file, tasks, wrote, diag, reminders, thread, now, ticks>>

\* complete_task with the lower bound off by one: tasks[-1] is the last record
complete_task_from_zero(task_id) ==
    /\ pc = "ready"
    /\ IF 0 <= task_id /\ task_id <= Len(tasks)
       THEN IF tasks = <<>>
            THEN /\ out' = [op |-> "complete", msg |-> "IndexError", task_id |-> task_id]
                 /\ pc' = "crashed"
                 /\ UNCHANGED <<tasks, file, wrote>>
            ELSE LET k == IF task_id = 0 THEN Len(tasks) ELSE task_id
                 IN  /\ tasks' = [tasks EXCEPT ![k].completed = TRUE]
                     /\ file' = save_tasks([tasks EXCEPT ![k].completed = TRUE])
                     /\ wrote' = TRUE
                     /\ out' = [op |-> "complete", msg |-> "completed",
                                task_id |-> task_id, title |-> tasks[k].title]
                     /\ pc' = "done"
       ELSE /\ out' = [op |-> "complete", msg |-> "invalid task number",
                       task_id |-> task_id]
            /\ pc' = "done"
            /\ UNCHANGED <<tasks, file, wrote>>
    /\ UNCHANGED <<diag, reminders, thread, now, ticks>>

\* complete_task toggling the flag instead of setting it
complete_task_toggle(task_id) ==
    /\ pc = "ready"
    /\ IF 1 <= task_id /\ task_id <= Len(tasks)
       THEN /\ tasks' = [tasks EXCEPT ![task_id].completed = ~tasks[task_id].completed]
            /\ file' = save_tasks([tasks EXCEPT
                                     ![task_id].completed = ~tasks[task_id].completed])
            /\ wrote' = TRUE
            /\ out' = [op |-> "complete", msg |-> "completed", task_id |-> task_id,
                       title |-> tasks[task_id].title]
       ELSE /\ out' = [op |-> "complete", msg |-> "invalid task number",
                       task_id |-> task_id]
            /\ UNCHANGED <<tasks, file, wrote>>
    /\ pc' = "done"
    /\ UNCHANGED <<diag, reminders, thread, now, ticks>>

complete_task(task_id) ==
    /\ pc = "ready"
    /\ IF 1 <= task_id /\ task_id <= Len(tasks)
       THEN /\ tasks' = [tasks EXCEPT ![task_id].completed = TRUE]
            /\ file' = save_tasks([tasks EXCEPT ![task_id].completed = TRUE])
            /\ wrote' = TRUE
            /\ out' = [op |-> "complete", msg |-> "completed", task_id |-> task_id,
                       title |-> tasks[task_id].title]
       ELSE /\ out' = [op |-> "complete", msg |-> "invalid task number",
                       task_id |-> task_id]
            /\ UNCHANGED <<tasks, file, wrote>>
    /\ pc' = "done"
    /\ UNCHANGED <<diag, reminders, thread, now, ticks>>

----------------------------------------------------------------------------
(* QuickDo.report *)

Day == 86400

\* timedelta(days=7), timedelta(days=1); None for an unsupported period
Window(period) ==
    CASE period = "week" -> Some(7 * Day)
      [] period = "day" -> Some(Day)
      [] OTHER -> None

\* the window test with a strict comparison
InWindow_strict(task_date, start_date) == task_date > start_date

\* if task_date >= start_date
InWindow(task_date, start_date) == task_date >= start_date

\* categories[c] = categories.get(c, 0) + 1, keys kept in first-seen order
Tally(categories, c) ==
    IF \E k \in 1..Len(categories) : categories[k].category = c
    THEN [k \in 1..Len(categories) |->
            IF categories[k].category = c
            THEN [category |-> c, count |-> categories[k].count + 1]
            ELSE categories[k]]
    ELSE Append(categories, [category |-> c, count |-> 1])

\* the for loop of report over ts[i..]; None when strptime raises ValueError
RECURSIVE ReportScan(_, _, _, _)
ReportScan(ts, i, start_date, acc) ==
    IF i > Len(ts) THEN Some(acc)
    ELSE LET task_date == StrPTime(ts[i].created_at)
         IN  IF ~IsSome(task_date) THEN None
             ELSE IF InWindow(Val(task_date), start_date)
             THEN ReportScan(ts, i + 1, start_date,
                    [completed |-> acc.completed + (IF ts[i].completed THEN 1 ELSE 0),
                     remaining |-> acc.remaining + (IF ts[i].completed THEN 0 ELSE 1),
                     categories |-> Tally(acc.categories, ts[i].category)])
             ELSE ReportScan(ts, i + 1, start_date, acc)

report(period) ==
    /\ pc = "ready"
    /\ IF ~IsSome(Window(period))
       THEN /\ out' = [op |-> "report", msg |-> "unsupported period", period |-> period]
            /\ pc' = "done"
       ELSE LET start_date == now - Val(Window(period))
                scan == ReportScan(tasks, 1, start_date,
                            [completed |-> 0, remaining |-> 0, categories |-> <<>>])
            IN  IF IsSome(scan)
                THEN /\ out' = [op |-> "report", msg |-> "report", period |-> period,
                                completed |-> Val(scan).completed,
                                remaining |-> Val(scan).remaining,
                                categories |-> Val(scan).categories]
                     /\ pc' = "done"
                ELSE /\ out' = [op |-> "report", msg |-> "ValueError", period |-> period]
                     /\ pc' = "crashed"
    /\ UNCHANGED <<file, tasks, wrote, diag, reminders, thread, now, ticks>>

----------------------------------------------------------------------------
(* QuickDo.remind and its reminder thread *)

\* parse_delay, then threading.Thread(target=reminder_task, daemon=True).start()
RemindStart(message, delay_str) ==
    /\ pc = "ready"
    /\ Len(reminders) < MaxReminders
    /\ LET secs == parse_delay(delay_str)
       IN  IF ~IsSome(secs)
           THEN /\ out' = [op |-> "remind", msg |-> "exception", message |-> message]
                /\ pc' = "crashed"
                /\ UNCHANGED thread
           ELSE /\ thread' = Some([message |-> message, wake |-> now + Val(secs),
                                   st |-> "sleeping"])
                /\ out' = [op |-> "remind", msg |-> "started", message |-> message,
                           time_str |-> StrFTime(now + Val(secs))]
                /\ pc' = "remind_started"
    /\ UNCHANGED <<file, tasks, wrote, diag, reminders, now, ticks>>

\* format_reminder
format_reminder(message, time_str) == time_str \o <<"|">> \o message

\* save_reminder: appends to the reminders file
RemindLog ==
    /\ pc = "remind_started"
    /\ reminders' = Append(reminders, format_reminder(out.message, out.time_str))
    /\ pc' = "remind_logged"
    /\ UNCHANGED <<file, tasks, out, wrote, diag, thread, now, ticks>>

\* remind joining its thread before it returns
RemindReturn_join ==
    /\ pc = "remind_logged"
    /\ IsSome(thread)
    /\ Val(thread).st = "notified"
    /\ out' = [out EXCEPT !.msg = "reminder set"]
    /\ pc' = "done"
    /\ UNCHANGED <<file, tasks, wrote, diag, reminders, thread, now, ticks>>

\* the final print of remind; control is back in main
RemindReturn ==
    /\ pc = "remind_logged"
    /\ out' = [out EXCEPT !.msg = "reminder set"]
    /\ pc' = "done"
    /\ UNCHANGED <<file, tasks, wrote, diag, reminders, thread, now, ticks>>

\* reminder_task: time.sleep(seconds) is over, notify(message)
reminder_task ==
    /\ pc \in {"remind_started", "remind_logged", "done"}
    /\ IsSome(thread)
    /\ Val(thread).st = "sleeping"
    /\ now >= Val(thread).wake
    /\ thread' = Some([Val(thread) EXCEPT !.st = "notified"])
    /\ UNCHANGED <<file, tasks, pc, out, wrote, diag, reminders, now, ticks>>

----------------------------------------------------------------------------
(* The environment: the clock and the end of the process *)

TickSteps == {30, Day}

Tick(d) ==
    /\ ticks < MaxTicks
    /\ now' = now + d
    /\ ticks' = ticks + 1
    /\ UNCHANGED <<file, tasks, pc, out, wrote, diag, reminders, thread>>

\* main returns; the daemon thread dies with the process
Exit ==
    /\ pc = "done"
    /\ pc' = "exited"
    /\ tasks' = <<>>
    /\ thread' = None
    /\ out' = NoOutput
    /\ UNCHANGED <<file, wrote, diag, reminders, now, ticks>>

----------------------------------------------------------------------------
(* The program: one command per process, over the files left by earlier   *)
(* ones.  The task commands (Spec) and the remind command (SpecRemind) are *)
(* explored apart: remind and its thread change only the reminders file    *)
(* and the thread, which no task command reads or writes.                  *)

\* lines a tasks file may hold before the first command: written by earlier
\* runs of the program or edited by hand
InitLines ==
    { to_string(Task(<<"a">>, None, Low, Work, FALSE, StrFTime(Epoch - 2 * Day))),
      to_string(Task(<<"b">>, Some(<<"x">>), High, Personal, TRUE, StrFTime(Epoch - 3600))),
      to_string(Task(<<"c">>, None, Medium, Personal, TRUE, StrFTime(Epoch - 8 * Day))),
      <<"-", "|", "z", "z", "|", "l", "o", "w", "|", "w", "o", "r", "k", "|", "a">>,
      <<"-", "|", "x">>,
      <<" ">> }

RECURSIVE FilesUpTo(_)
FilesUpTo(n) ==
    IF n = 0 THEN {<<>>}
    ELSE LET shorter == FilesUpTo(n - 1)
         IN  shorter \cup {Append(f, l) : f \in shorter, l \in InitLines}

AddArgs ==
    { [title |-> <<"a">>, due_date |-> None, priority |-> Medium, category |-> Personal],
      [title |-> <<"a", "|", "b">>, due_date |-> Some(<<"x">>), priority |-> High,
       category |-> Work] }

TaskIds == (0 - 1)..(MaxTasks + 1)
Periods == {"day", "week"}
Messages == {<<"m">>}
DelayArgs == {None, Some(<<"1", "m">>), Some(<<"0", "m">>), Some(<<"3", "0">>)}

IdleRecord == Task(<<>>, None, Medium, Personal, FALSE, <<>>)

CodecIdle ==
    /\ rec = IdleRecord
    /\ line = <<>>
    /\ dec = None
    /\ cstage = "idle"

DelayIdle ==
    /\ delay = None
    /\ seconds = None
    /\ dstage = "idle"

StoreIdle ==
    /\ file = <<>>
    /\ tasks = <<>>
    /\ pc = "exited"
    /\ out = NoOutput
    /\ wrote = FALSE
    /\ diag = 0
    /\ reminders = <<>>
    /\ thread = None
    /\ now = Epoch
    /\ ticks = 0

Init ==
    /\ file \in FilesUpTo(MaxInitLines)
    /\ tasks = <<>>
    /\ pc = "exited"
    /\ out = NoOutput
    /\ wrote = FALSE
    /\ diag = 0
    /\ reminders = <<>>
    /\ thread = None
    /\ now = Epoch
    /\ ticks = 0
    /\ CodecIdle
    /\ DelayIdle

Next ==
    \/ Start /\ UNCHANGED <<codecVars, delayVars>>
    \/ \E a \in AddArgs :
          add_task(a.title, a.due_date, a.priority, a.category)
          /\ UNCHANGED <<codecVars, delayVars>>
    \/ \E show_completed \in BOOLEAN :
          list_tasks(show_completed) /\ UNCHANGED <<codecVars, delayVars>>
    \/ \E task_id \in TaskIds :
          complete_task(task_id) /\ UNCHANGED <<codecVars, delayVars>>
    \/ \E period \in Periods :
          report(period) /\ UNCHANGED <<codecVars, delayVars>>
    \/ \E d \in TickSteps : Tick(d) /\ UNCHANGED <<codecVars, delayVars>>
    \/ Exit /\ UNCHANGED <<codecVars, delayVars>>

Spec == Init /\ [][Next]_vars

NextRemind ==
    \/ Start /\ UNCHANGED <<codecVars, delayVars>>
    \/ \E message \in Messages, delay_str \in DelayArgs :
          RemindStart(message, delay_str) /\ UNCHANGED <<codecVars, delayVars>>
    \/ RemindLog /\ UNCHANGED <<codecVars, delayVars>>
    \/ RemindReturn /\ UNCHANGED <<codecVars, delayVars>>
    \/ reminder_task /\ UNCHANGED <<codecVars, delayVars>>
    \/ \E d \in TickSteps : Tick(d) /\ UNCHANGED <<codecVars, delayVars>>
    \/ Exit /\ UNCHANGED <<codecVars, delayVars>>

SpecRemind == Init /\ [][NextRemind]_vars

InitCodec ==
    /\ rec \in Records
    /\ line = <<>>
    /\ dec = None
    /\ cstage = "record"
    /\ StoreIdle
    /\ DelayIdle

NextCodec ==
    \/ Encode /\ UNCHANGED <<storeVars, delayVars>>
    \/ Decode /\ UNCHANGED <<storeVars, delayVars>>

SpecCodec == InitCodec /\ [][NextCodec]_vars

InitDelay ==
    /\ delay \in DelayTexts
    /\ seconds = None
    /\ dstage = "text"
    /\ StoreIdle
    /\ CodecIdle

NextDelay == ParseDelay /\ UNCHANGED <<storeVars, codecVars>>

SpecDelay == InitDelay /\ [][NextDelay]_vars

----------------------------------------------------------------------------
(* Properties of the record codec, under SpecCodec *)

HasDelimiter(s) == \E i \in 1..Len(s) : s[i] = "|"

\* C1: decoding the encoding of any record returns a record equal to it in
\* all six fields (title, due_date and its presence, priority, category,
\* completed, created_at).
C1_RoundTrip ==
    cstage = "decoded" =>
        /\ IsSome(dec)
        /\ Val(dec).title = rec.title
        /\ Val(dec).due_date = rec.due_date
        /\ Val(dec).priority = rec.priority
        /\ Val(dec).category = rec.category
        /\ Val(dec).completed = rec.completed
        /\ Val(dec).created_at = rec.created_at

\* C2: a title that contains the '|' delimiter comes back from the round
\* trip identical to the original title.
C2_DelimiterTitleSurvives ==
    (cstage = "decoded" /\ HasDelimiter(rec.title)) =>
        (IsSome(dec) /\ Val(dec).title = rec.title)

----------------------------------------------------------------------------
(* Properties of the task commands, under Spec *)

FieldCount(l) == 1 + Cardinality({i \in 1..Len(l) : l[i] = "|"})
NonBlank(l) == \E i \in 1..Len(l) : ~IsSpace(l[i])
Malformed(l) == NonBlank(l) /\ FieldCount(l) < 4
WellFormed(l) == NonBlank(l) /\ FieldCount(l) >= 4

\* C3: a non-blank line with fewer than 4 '|'-separated fields is dropped
\* without an exception, and the load returns every other non-blank line of
\* the file as a record, in file order.
C3_LoadDropsOnlyMalformedLines ==
    pc = "ready" =>
        LET kept == SelectSeq(file, WellFormed)
        IN  /\ \A i \in 1..Len(file) : Malformed(file[i]) => from_string(file[i]) = None
            /\ Len(tasks) = Len(kept)
            /\ \A k \in 1..Len(kept) : Some(tasks[k]) = from_string(kept[k])
            /\ diag = Cardinality({i \in 1..Len(file) : Malformed(file[i])})

C3_Witness ==
    /\ pc = "ready"
    /\ Len(file) = 2
    /\ Malformed(file[1])
    /\ WellFormed(file[2])
    /\ Len(tasks) = 1
    /\ diag = 1

\* C4: complete_task(p) with p < 1 or p > N reports "invalid task number",
\* leaves the in-memory sequence unchanged and does not write the tasks file.
C4_InvalidPositionChangesNothing ==
    [][\A p \in TaskIds :
          (complete_task(p) /\ (p < 1 \/ p > Len(tasks))) =>
              /\ out'.msg = "invalid task number"
              /\ tasks' = tasks
              /\ file' = file
              /\ wrote' = FALSE
              /\ pc' = "done"]_vars

C4_Witness ==
    /\ pc = "done"
    /\ out.op = "complete"
    /\ out.msg = "invalid task number"
    /\ Len(tasks) > 0
    /\ out.task_id \in {0, Len(tasks) + 1}
    /\ ~wrote

SameButCompleted(t, u) ==
    /\ u.title = t.title
    /\ u.due_date = t.due_date
    /\ u.priority = t.priority
    /\ u.category = t.category
    /\ u.created_at = t.created_at

CompleteKeepsTheRest(p) ==
    /\ Len(tasks') = Len(tasks)
    /\ \A i \in 1..Len(tasks) : i # p => tasks'[i] = tasks[i]
    /\ SameButCompleted(tasks[p], tasks'[p])
    /\ wrote' = TRUE
    /\ file' = [i \in 1..Len(tasks') |-> to_string(tasks'[i])]

\* C5 as stated: complete_task(p) with 1 <= p <= N flips the completed flag
\* of record p whatever its value was, changes nothing else and persists the
\* full sequence.
C5_ValidPositionFlips ==
    [][\A p \in TaskIds :
          (complete_task(p) /\ 1 <= p /\ p <= Len(tasks)) =>
              /\ tasks'[p].completed = ~tasks[p].completed
              /\ CompleteKeepsTheRest(p)]_vars

\* C5 amended: complete_task(p) with 1 <= p <= N sets the completed flag of
\* record p to true whatever its value was, changes no other field of that
\* record and no other record, keeps length and order, and persists the
\* full sequence.
C5_ValidPositionSetsCompleted ==
    [][\A p \in TaskIds :
          (complete_task(p) /\ 1 <= p /\ p <= Len(tasks)) =>
              /\ tasks'[p].completed = TRUE
              /\ CompleteKeepsTheRest(p)]_vars

C5_Witness ==
    /\ pc = "done"
    /\ out.op = "complete"
    /\ out.msg = "completed"
    /\ Len(tasks) = 2
    /\ tasks[out.task_id].completed
    /\ wrote
    /\ file = [i \in 1..Len(tasks) |-> to_string(tasks[i])]

Shown(show_completed) == {i \in 1..Len(tasks) : show_completed \/ ~tasks[i].completed}

\* C6: on a non-empty sequence list_tasks(False) shows exactly the records
\* that are not completed, in insertion order, each under its 1-based index
\* in the full sequence; list_tasks(True) shows every record the same way.
C6_ListNumbersByStoredPosition ==
    (pc = "done" /\ out.op = "list" /\ tasks # <<>>) =>
        /\ {out.rows[k].i : k \in 1..Len(out.rows)} = Shown(out.show_completed)
        /\ \A k \in 1..Len(out.rows) :
              /\ k > 1 => out.rows[k - 1].i < out.rows[k].i
              /\ out.rows[k].i \in 1..Len(tasks)
              /\ out.rows[k].title = tasks[out.rows[k].i].title
              /\ out.rows[k].category = tasks[out.rows[k].i].category
              /\ out.rows[k].due_date = tasks[out.rows[k].i].due_date
              /\ (out.rows[k].status = "done") = tasks[out.rows[k].i].completed

C6_Witness ==
    /\ pc = "done"
    /\ out.op = "list"
    /\ ~out.show_completed
    /\ Len(tasks) = 2
    /\ tasks[1].completed
    /\ ~tasks[2].completed
    /\ Len(out.rows) = 1
    /\ out.rows[1].i = 2

\* the records of the window, read off the stored created_at texts
CreatedSince(start) ==
    {i \in 1..Len(tasks) :
        IsSome(StrPTime(tasks[i].created_at)) /\ Val(StrPTime(tasks[i].created_at)) >= start}

AllParse == \A i \in 1..Len(tasks) : IsSome(StrPTime(tasks[i].created_at))

ReportedCount(categories, c) ==
    IF \E k \in 1..Len(categories) : categories[k].category = c
    THEN (CHOOSE r \in {categories[k] : k \in 1..Len(categories)} : r.category = c).count
    ELSE 0

\* C7: report('day') and report('week') count, with start = now - 1 day or
\* now - 7 days, the completed and the remaining records with
\* created_at >= start and, per category, the records with created_at >=
\* start; a record created before start is in none of the three tallies.
C7_ReportCountsTheWindow ==
    [][\A period \in Periods :
          (report(period) /\ AllParse) =>
              LET start == now - (IF period = "day" THEN 86400 ELSE 7 * 86400)
                  inside == CreatedSince(start)
              IN  /\ pc' = "done"
                  /\ out'.msg = "report"
                  /\ out'.completed = Cardinality({i \in inside : tasks[i].completed})
                  /\ out'.remaining = Cardinality({i \in inside : ~tasks[i].completed})
                  /\ \A i \in 1..Len(tasks) :
                        ReportedCount(out'.categories, tasks[i].category) =
                          Cardinality({j \in inside : tasks[j].category = tasks[i].category})
                  /\ \A k \in 1..Len(out'.categories) :
                        /\ out'.categories[k].count > 0
                        /\ \A m \in 1..Len(out'.categories) :
                              out'.categories[m].category = out'.categories[k].category
                                => m = k]_vars

C7_Witness ==
    /\ pc = "done"
    /\ out.op = "report"
    /\ out.msg = "report"
    /\ out.period = "day"
    /\ ticks = 0
    /\ Len(tasks) = 2
    /\ tasks[1].created_at = StrFTime(now - 2 * 86400)
    /\ tasks[2].created_at = StrFTime(now - 3600)
    /\ out.completed + out.remaining = 1
    /\ out.categories = <<[category |-> tasks[2].category, count |-> 1]>>

\* C8: no command of the CLI surface ends in an unhandled exception.
C8_NoUnhandledException == pc # "crashed"

----------------------------------------------------------------------------
(* Property of the remind command, under SpecRemind *)

ThreadSleeping == IsSome(thread) /\ Val(thread).st = "sleeping"

\* C9: remind starts the background unit, appends the log line and returns
\* without waiting for the unit: its remaining steps are enabled whatever
\* the unit does, at the return the unit has not fired before its delay
\* elapsed, and the unit's step touches neither the task sequence nor the
\* tasks file.
C9_RemindDoesNotBlock ==
    /\ [](pc = "remind_started" => (IsSome(thread) /\ ENABLED RemindLog))
    /\ [](pc = "remind_logged" =>
            (IsSome(thread) /\ reminders # <<>> /\ ENABLED RemindReturn))
    /\ []((pc = "done" /\ out.op = "remind") =>
            /\ IsSome(thread)
            /\ reminders # <<>>
            /\ now < Val(thread).wake => Val(thread).st = "sleeping")
    /\ [][reminder_task => (tasks' = tasks /\ file' = file /\ wrote' = wrote)]_vars

C9_Witness ==
    /\ pc = "done"
    /\ out.op = "remind"
    /\ out.msg = "reminder set"
    /\ ThreadSleeping
    /\ now < Val(thread).wake
    /\ Len(reminders) = 1

----------------------------------------------------------------------------
(* Property of parse_delay, under SpecDelay *)

Multiplier(c) == IF c = "m" THEN 60 ELSE IF c = "h" THEN 3600 ELSE 86400

\* C10: the text of n followed by m, h or d yields n*60, n*3600 or n*86400
\* seconds, and the text of n alone yields n*60 seconds.
C10_DelayInSeconds ==
    (dstage = "parsed" /\ IsSome(delay) /\ Val(delay) # <<>>) =>
        LET s == Val(delay)
            n == SubSeq(s, 1, Len(s) - 1)
        IN  /\ (s[Len(s)] \in {"m", "h", "d"} /\ n # <<>> /\ AllDigits(n)) =>
                  seconds = Some(DecValue(n) * Multiplier(s[Len(s)]))
            /\ AllDigits(s) => seconds = Some(DecValue(s) * 60)

====
